---- MODULE Spec2Model ----
(***************************************************************************)
(* Ingestion pipeline of the job scraper (bot/telethon_scraper.py):        *)
(* the NewMessage handler handle_job_post with its two seen-sets, the      *)
(* job-likely classifier, field extraction, persistence of the job post    *)
(* and the broadcast fan-out (Spec, SpecAi); the field extractors on texts *)
(* given line by line (SpecExtract); and the Gemini matcher of             *)
(* bot/gemini_matcher.py (SpecMatcher).                                    *)
(*                                                                         *)
(* Handler runs are asyncio tasks on one event loop: a run executes        *)
(* without interruption until it reaches an await, so the variable         *)
(* `running` names the run that currently holds the loop (0 = loop free)   *)
(* and another run may only step while the loop is free.                   *)
(***************************************************************************)
EXTENDS Integers, Sequences, FiniteSets, TLC

\* ---------------------------------------------------------------- bounds
MaxPresentations == 2   \* NewMessage events of tracked messages
MaxInFlight == 2        \* handler runs suspended at an await at one time
MaxClears == 1          \* filler traffic stops after this many cache clears
MaxLines == 5           \* lines of a text handed to the field extractors
MaxAiCalls == 3
MaxBatchJobs == 2
MaxBatchUsers == 2
MaxPayments == 2
MaxPaymentCalls == 3
MaxReferrals == 3
MaxWithdrawals == 2         \* recorded calls of match_job_to_user
FillerBurstSize == 500  \* untracked fresh messages handled in one burst

\* ------------------------------------------------------ program constants
CacheLimit == 1000
MinBodyLength == 50
MaxSlashes == 2

NoneValue == [none |-> TRUE]
MyId == 900
OtherId == 901

\* ------------------------------------------------------------------ texts
\* A message text is represented by what the code reads from it: its bytes
\* (identity of the byte string), its length before and after strip(), the
\* substrings is_job_posting looks for and the results of extract_title,
\* extract_location, extract_job_type and clean_description ("" stands for
\* a field the extractor returns None or '' for) and whether it holds a
\* https://forms.gle/ link.
JobA ==
  [bytes |-> "JobA", raw_len |-> 120, stripped_len |-> 120,
   skip_pattern |-> FALSE, slashes |-> 0, keyword |-> TRUE,
   indicator |-> TRUE, afriwork |-> TRUE,
   title |-> "Backend Engineer", description |-> "descA",
   location |-> "", job_type |-> "remote", forms_gle |-> FALSE]
JobB ==
  [bytes |-> "JobB", raw_len |-> 90, stripped_len |-> 90,
   skip_pattern |-> FALSE, slashes |-> 1, keyword |-> TRUE,
   indicator |-> TRUE, afriwork |-> FALSE,
   title |-> "Data Analyst", description |-> "descB",
   location |-> "Remote", job_type |-> "remote", forms_gle |-> FALSE]
Short40 ==
  [bytes |-> "Short40", raw_len |-> 60, stripped_len |-> 40,
   skip_pattern |-> FALSE, slashes |-> 0, keyword |-> TRUE,
   indicator |-> TRUE, afriwork |-> TRUE,
   title |-> "Driver", description |-> "descS",
   location |-> "", job_type |-> "", forms_gle |-> FALSE]
Chat50 ==
  [bytes |-> "Chat50", raw_len |-> 50, stripped_len |-> 50,
   skip_pattern |-> FALSE, slashes |-> 0, keyword |-> FALSE,
   indicator |-> FALSE, afriwork |-> FALSE,
   title |-> "hello", description |-> "descC",
   location |-> "", job_type |-> "", forms_gle |-> FALSE]
NoTitle ==
  [bytes |-> "NoTitle", raw_len |-> 70, stripped_len |-> 70,
   skip_pattern |-> FALSE, slashes |-> 0, keyword |-> TRUE,
   indicator |-> TRUE, afriwork |-> TRUE,
   title |-> "", description |-> "descN",
   location |-> "", job_type |-> "", forms_gle |-> FALSE]
\* a bot menu text: contains 'main menu' and 'contact support'
Menu60 ==
  [bytes |-> "Menu60", raw_len |-> 60, stripped_len |-> 60,
   skip_pattern |-> TRUE, slashes |-> 0, keyword |-> TRUE,
   indicator |-> TRUE, afriwork |-> FALSE,
   title |-> "Main menu", description |-> "descM",
   location |-> "", job_type |-> "", forms_gle |-> FALSE]
\* a job-like text with three "/" characters
Slashes3 ==
  [bytes |-> "Slashes3", raw_len |-> 80, stripped_len |-> 80,
   skip_pattern |-> FALSE, slashes |-> 3, keyword |-> TRUE,
   indicator |-> TRUE, afriwork |-> TRUE,
   title |-> "Accountant", description |-> "descX",
   location |-> "", job_type |-> "", forms_gle |-> FALSE]
\* a job post with a https://forms.gle/ application link
FormsLink ==
  [bytes |-> "FormsLink", raw_len |-> 150, stripped_len |-> 150,
   skip_pattern |-> FALSE, slashes |-> 2, keyword |-> TRUE,
   indicator |-> TRUE, afriwork |-> TRUE,
   title |-> "Nurse", description |-> "descF",
   location |-> "", job_type |-> "", forms_gle |-> TRUE]
\* one @mention of word characters with a job keyword and an indicator in
\* it: clean_description removes all of it
MentionOnly ==
  [bytes |-> "MentionOnly", raw_len |-> 57, stripped_len |-> 57,
   skip_pattern |-> FALSE, slashes |-> 0, keyword |-> TRUE,
   indicator |-> TRUE, afriwork |-> FALSE,
   title |-> "@mention", description |-> "",
   location |-> "", job_type |-> "", forms_gle |-> FALSE]

Texts ==
  {JobA, JobB, Short40, Chat50, NoTitle, Menu60, Slashes3, FormsLink,
   MentionOnly}

\* --------------------------------------------------------------- messages
Msg(c, i, t, o, f) ==
  [chat_id |-> c, id |-> i, text |-> t, out |-> o, from_id |-> f]

Messages ==
  { Msg(1, 1, JobA, FALSE, OtherId),     \* a job post
    Msg(1, 2, JobA, FALSE, OtherId),     \* same body, new message id
    Msg(2, 1, JobB, FALSE, OtherId),     \* same message id, other chat
    Msg(1, 3, Short40, FALSE, OtherId),  \* 40 characters after strip()
    Msg(1, 4, Chat50, FALSE, OtherId),   \* exactly 50 characters, not a job
    Msg(1, 5, NoTitle, FALSE, OtherId),  \* job-like, no title extractable
    Msg(1, 6, JobB, TRUE, MyId),         \* sent by the scraper's account
    Msg(1, 7, Menu60, FALSE, OtherId),   \* hits the skip patterns
    Msg(1, 8, Slashes3, FALSE, OtherId), \* more than two "/"
    Msg(1, 9, FormsLink, FALSE, OtherId),   \* extraction raises
    Msg(1, 10, MentionOnly, FALSE, OtherId) } \* empty description

\* what self.client.get_me() hands back when it is called without await
GetMeResults == {"user", "coroutine"}

\* ------------------------------------------------------------ users table
UsersTable ==
  << [user_id |-> 1, telegram_id |-> 101, has_profile |-> FALSE,
      full_name |-> "Abebe", username |-> "abebe", role |-> "seeker"],
     [user_id |-> 2, telegram_id |-> 102, has_profile |-> TRUE,
      full_name |-> "Sara", username |-> "sara", role |-> "seeker"],
     [user_id |-> 3, telegram_id |-> 0, has_profile |-> FALSE,
      full_name |-> "", username |-> "", role |-> "seeker"],
     [user_id |-> 4, telegram_id |-> 104, has_profile |-> TRUE,
      full_name |-> "", username |-> "meron", role |-> "seeker"],
     [user_id |-> 5, telegram_id |-> 105, has_profile |-> TRUE,
      full_name |-> "Dawit", username |-> "", role |-> "employer"] >>

\* rows of table user_preferences, by user_id (users with has_profile)
UserPreferences ==
  [u \in {2, 4, 5} |->
     CASE u = 2 -> [preferred_locations |-> {"hawassa"},
                    preferred_job_types |-> {"part_time"},
                    preferred_categories |-> {"nursing"},
                    keywords |-> {}]
       [] u = 4 -> [preferred_locations |-> {"remote"},
                    preferred_job_types |-> {},
                    preferred_categories |-> {},
                    keywords |-> {}]
       [] u = 5 -> [preferred_locations |-> {"any"},
                    preferred_job_types |-> {"part_time"},
                    preferred_categories |-> {"nursing"},
                    keywords |-> {}]]

NullTelegramId == 0

\* names bound at module level of telethon_scraper.py by its import lines
ModuleNames ==
  {"os", "asyncio", "logging", "re", "datetime", "timedelta", "List", "Dict",
   "Any", "Optional", "TelegramClient", "events", "Message", "Config",
   "DatabaseManager", "Job", "JobSeeker", "EducationLevel", "JobType",
   "GeminiJobMatcher", "logger"}

VARIABLES
  processed_messages,  \* tracked identity keys in self.processed_messages
  processed_content,   \* tracked content hashes in self.processed_content
  msgFill,             \* number of untracked keys in processed_messages
  contentFill,         \* number of untracked hashes in processed_content
  runs,                \* one record per handler run of a tracked message
  running,             \* run holding the event loop, 0 when it is free
  job_posts,           \* rows of table job_posts, post_id = position
  sent,                \* bot_instance.send_message calls made so far
  bot_instance,        \* scraper.bot_instance is set (run.py)
  clears,              \* number of times a seen-set was cleared (history)
  gemini,              \* condition of gemini_matcher: its model and the API
  ai_calls,            \* calls of match_job_to_user with results (history)
  extract_in,          \* lines of the text the field extractors are given
  extract_out,         \* the fields they return, NoneValue before the call
  batch,               \* the call of batch_match_jobs: its lists and position
  matches,             \* the list batch_match_jobs builds and returns
  batch_log,           \* what happened to each (job, user) pair (history)
  classify_in,         \* lines of the text is_job_posting is given
  classify_out,        \* what it returns, NoneValue before the call
  pending_payments,    \* rows of table pending_payments, payment_id = position
  subscriptions,       \* row of table subscriptions of each user
  payment_calls,       \* calls of handle_payment_approval (history)
  payment_log,         \* status written by each UPDATE of a payment (history)
  referral_users,      \* referral columns of the rows of table users
  referral_log,        \* calls of process_referral with results (history)
  withdraw_calls       \* calls of withdraw_command with their position

vars == <<processed_messages, processed_content, msgFill, contentFill, runs,
          running, job_posts, sent, bot_instance, clears, gemini, ai_calls,
          extract_in, extract_out, batch, matches, batch_log, classify_in,
          classify_out, pending_payments, subscriptions, payment_calls,
          payment_log, referral_users, referral_log, withdraw_calls>>

BatchVars == <<batch, matches, batch_log>>
ClassifyVars == <<classify_in, classify_out>>
\* the state of the services the scraper pipeline does not touch
PaymentVars ==
  <<pending_payments, subscriptions, payment_calls, payment_log>>
ReferralVars == <<referral_users, referral_log, withdraw_calls>>
Services == <<BatchVars, ClassifyVars, PaymentVars, ReferralVars>>

\* --------------------------------------------------------- field extractors
PyNone == "None"

\* A line of a text, by what the extractors read from it: the structured
\* label it starts with after strip() and the rest of the line, what the
\* title patterns capture in it, the job types and cities whose keywords
\* occur in it and what the salary patterns capture in it.
Line(raw, label, value, title_fb, type_kws, cities, salary_fb) ==
  [raw |-> raw, label |-> label, value |-> value, title_fb |-> title_fb,
   type_kws |-> type_kws, cities |-> cities, salary_fb |-> salary_fb]
LineKinds ==
  { Line("Job Title: Backend Engineer", "Job Title:", "Backend Engineer",
         "Backend Engineer", {}, {}, ""),
    Line("Job Type: Remote", "Job Type:", "Remote", "", {"remote"}, {}, ""),
    Line("Work Location: Addis Ababa", "Work Location:", "Addis Ababa", "",
         {}, {"addis ababa", "addis"}, ""),
    Line("Salary/Compensation: 20,000 Birr", "Salary/Compensation:",
         "20,000 Birr", "", {}, {}, "20,000"),
    Line("Deadline: 2025-01-01", "Deadline:", "2025-01-01", "", {}, {}, ""),
    Line("Salary/Compensation: Monthly", "Salary/Compensation:", "Monthly",
         "", {}, {}, ""),
    Line("Position: Driver, full time in Adama, 5,000 birr", "",
         "", "Driver, full time in Adama, 5,000 birr", {"full_time"},
         {"adama"}, "5,000"),
    Line("Job Type: On-site - Permanent", "Job Type:", "On-site - Permanent",
         "", {"full_time"}, {}, ""),
    Line("Job Title:", "Job Title:", "", "", {}, {}, "") }

\* self.job_types and self.locations in the order they are searched
JobTypeOrder == <<"full_time", "part_time", "contract", "remote", "internship">>
LocationOrder == <<"addis ababa", "addis", "adama">>
\* location.title()
Title(city) ==
  CASE city = "addis ababa" -> "Addis Ababa"
    [] city = "addis" -> "Addis"
    [] city = "adama" -> "Adama"
\* f"{match.group(1)} Birr"
Birr(amount) ==
  CASE amount = "20,000" -> "20,000 Birr"
    [] amount = "5,000" -> "5,000 Birr"
\* the simplification of a 'Job Type:' value: 'On-site', 'Remote', 'Hybrid'
\* in it, else lower()
SimplifyJobType(value) ==
  CASE value = "On-site - Permanent" -> "onsite"
    [] value = "Remote" -> "remote"
    [] OTHER -> value

First(S) == CHOOSE i \in S : \A j \in S : i <= j
Labelled(lines, label) == {i \in 1..Len(lines) : lines[i].label = label}

extract_title(lines) ==
  LET lab == Labelled(lines, "Job Title:")
      pat == {i \in 1..Len(lines) : lines[i].title_fb # ""}
  IN IF lab # {} THEN lines[First(lab)].value
     ELSE IF pat # {} THEN lines[First(pat)].title_fb
     ELSE lines[1].raw

extract_job_typeKeywordsFirst(lines) ==
  LET lab == Labelled(lines, "Job Type:")
      kws == {k \in 1..Len(JobTypeOrder) :
                \E i \in 1..Len(lines) : JobTypeOrder[k] \in lines[i].type_kws}
  IN IF kws # {} THEN JobTypeOrder[First(kws)]
     ELSE IF lab # {} THEN SimplifyJobType(lines[First(lab)].value)
     ELSE PyNone
extract_job_type(lines) ==
  LET lab == Labelled(lines, "Job Type:")
      kws == {k \in 1..Len(JobTypeOrder) :
                \E i \in 1..Len(lines) : JobTypeOrder[k] \in lines[i].type_kws}
  IN IF lab # {} THEN SimplifyJobType(lines[First(lab)].value)
     ELSE IF kws # {} THEN JobTypeOrder[First(kws)]
     ELSE PyNone

\* a labelled line counts only with a value other than the placeholders
extract_salary(lines) ==
  LET lab == {i \in Labelled(lines, "Salary/Compensation:") :
                lines[i].value \notin {"", "Monthly", "Fixed (One-time)"}}
      pat == {i \in 1..Len(lines) : lines[i].salary_fb # ""}
  IN IF lab # {} THEN lines[First(lab)].value
     ELSE IF pat # {} THEN Birr(lines[First(pat)].salary_fb)
     ELSE PyNone

extract_location(lines) ==
  LET lab == Labelled(lines, "Work Location:")
      found == {k \in 1..Len(LocationOrder) :
                  \E i \in 1..Len(lines) : LocationOrder[k] \in lines[i].cities}
  IN IF lab # {} THEN lines[First(lab)].value
     ELSE IF found # {} THEN Title(LocationOrder[First(found)])
     ELSE PyNone

extract_deadline(lines) ==
  LET lab == Labelled(lines, "Deadline:")
  IN IF lab # {} THEN lines[First(lab)].value ELSE PyNone

\* ----------------------------------------------------------- Gemini matcher
\* "uninitialised": self.model is None; otherwise the model object is set
\* and the API answers, exceeds the 15 s of wait_for, or raises
AiModes == {"uninitialised", "initialised", "timing_out", "failing"}

\* JSON / Python values with their type; floats are in tenths
Float(n) == [type |-> "float", value |-> n]
Bool(b) == [type |-> "bool", value |-> IF b THEN 1 ELSE 0]
Str(str) == [type |-> "str", value |-> 0, chars |-> str]

\* response.text as _parse_ai_response reads it: whether \{[^}]+\} finds
\* an object that json.loads accepts ("object"), finds one it rejects
\* ("invalid"), finds none ("none"), or the text is not a string
\* ("not_text"); and whether a positive / negative word occurs in it
Reply(j, o, pos, neg) ==
  [json |-> j, object |-> o, positive |-> pos, negative |-> neg]
NoObject == [none |-> TRUE]
Replies ==
  { Reply("object", [match_score |-> Float(8), match_reason |-> Str("skills"),
                     recommendation |-> Str("apply"), is_match |-> Bool(TRUE)],
          TRUE, FALSE),
    Reply("object", [match_score |-> Float(15), match_reason |-> Str("skills"),
                     recommendation |-> Str("apply"), is_match |-> Str("yes")],
          TRUE, FALSE),
    Reply("object", [score |-> Float(2)], FALSE, FALSE),
    Reply("object", [match_score |-> Float(9), is_match |-> Bool(TRUE)],
          TRUE, FALSE),
    Reply("invalid", NoObject, TRUE, FALSE),
    Reply("none", NoObject, TRUE, FALSE),    \* "a good fit"
    Reply("none", NoObject, TRUE, TRUE),     \* "does not match"
    Reply("none", NoObject, FALSE, TRUE),    \* "a poor fit"
    Reply("none", NoObject, FALSE, FALSE),
    Reply("not_text", NoObject, FALSE, FALSE) }

Verdict(score, reason, rec, match) ==
  [match_score |-> Float(score), match_reason |-> Str(reason),
   recommendation |-> Str(rec), is_match |-> Bool(match)]

\* self.model.generate_content(...) under asyncio.wait_for(..., 15.0):
\* there is a response only when the call returns
generate_content(mode, reply) ==
  CASE mode = "uninitialised" -> [raised |-> "AttributeError", text |-> NoObject]
    [] mode = "timing_out" -> [raised |-> "TimeoutError", text |-> NoObject]
    [] mode = "failing" -> [raised |-> "Exception", text |-> NoObject]
    [] OTHER -> [raised |-> "", text |-> reply]

create_fallback_responsePositiveLast(response_text) ==
  LET afterNegative == 0
      match_score == IF response_text.positive THEN 7 ELSE afterNegative
  IN Verdict(match_score, "AI analysis completed", "first line",
             response_text.positive)
\* match_score 0.0; a positive word: max(score, 0.7), True; then a negative
\* word: min(score, 0.3), False
create_fallback_response(response_text) ==
  LET afterPositive == IF response_text.positive THEN 7 ELSE 0
      match_score == IF response_text.negative
                     THEN (IF afterPositive < 3 THEN afterPositive ELSE 3)
                     ELSE afterPositive
      is_match == response_text.positive /\ ~response_text.negative
  IN Verdict(match_score, "AI analysis completed", "first line", is_match)

\* _parse_ai_response: the object json.loads returns is handed back as it is
parse_ai_response(response_text) ==
  IF response_text.json = "not_text"
  THEN Verdict(0, "Error parsing AI response", "Unable to process job match",
               FALSE)
  ELSE IF response_text.json = "object" THEN response_text.object
  ELSE create_fallback_response(response_text)

match_job_to_userOneHandler(mode, reply) ==
  LET response == generate_content(mode, reply)
  IN [raised |-> "",
      result |->
        IF response.raised # ""
        THEN Verdict(0, "Error in AI matching process",
                     "Unable to process job match", FALSE)
        ELSE parse_ai_response(response.text)]
match_job_to_userNoHandlers(mode, reply) ==
  LET response == generate_content(mode, reply)
  IN [raised |-> response.raised,
      result |-> IF response.raised # "" THEN NoObject
                 ELSE parse_ai_response(response.text)]
\* the verdict match_job_to_user returns, or the exception it lets out
match_job_to_user(mode, reply) ==
  LET response == generate_content(mode, reply)
  IN [raised |-> "",
      result |->
        IF response.raised = "TimeoutError"
        THEN Verdict(0, "AI matching timeout",
                     "Unable to process job match due to timeout", FALSE)
        ELSE IF response.raised # ""
        THEN Verdict(0, "Error in AI matching process",
                     "Unable to process job match", FALSE)
        ELSE parse_ai_response(response.text)]

\* ---------------------------------------------------------- pure helpers
Min(a, b) == IF a < b THEN a ELSE b
Max(a, b) == IF a > b THEN a ELSE b

\* message_id = f"{message.chat_id}_{message.id}"
MessageKey(m) == <<m.chat_id, "_", m.id>>

\* hashlib.md5(message.text.encode()).hexdigest(): a function of the bytes
md5(text) == <<"md5", text.bytes>>

SizeMessages == Cardinality(processed_messages) + msgFill
SizeContent == Cardinality(processed_content) + contentFill

TooShortUnstripped(text) == text.raw_len < MinBodyLength
\* not message.text or len(message.text.strip()) < 50
TooShort(text) == text.stripped_len < MinBodyLength

GateVerdictNoContentCheck(m, me, seenMessages, seenContent) ==
  IF MessageKey(m) \in seenMessages THEN "dup_id"
  ELSE IF m.out THEN "self"
  ELSE IF me = "coroutine" THEN "attr_error"
  ELSE IF m.from_id = MyId THEN "self"
  ELSE IF TooShort(m.text) THEN "short"
  ELSE "pass"
\* the checks of handle_job_post before marking, in source order
GateVerdict(m, me, seenMessages, seenContent) ==
  IF MessageKey(m) \in seenMessages THEN "dup_id"
  ELSE IF m.out THEN "self"
  ELSE IF me = "coroutine" THEN "attr_error"
  ELSE IF m.from_id = MyId THEN "self"
  ELSE IF TooShort(m.text) THEN "short"
  ELSE IF md5(m.text) \in seenContent THEN "dup_content"
  ELSE "pass"

MarkProcessedForgotten(seen, m) == seen
\* self.processed_messages.add(message_id); self.processed_content.add(hash)
MarkProcessed(seen, m) ==
  [messages |-> seen.messages \cup {MessageKey(m)},
   content |-> seen.content \cup {md5(m.text)}]

is_job_postingLabelOverrides(text) ==
  IF text.skip_pattern THEN FALSE
  ELSE IF text.stripped_len < MinBodyLength THEN FALSE
  ELSE IF text.slashes > MaxSlashes THEN FALSE
  ELSE IF text.afriwork THEN TRUE
  ELSE IF ~text.keyword THEN FALSE
  ELSE text.indicator
is_job_postingNoPreFilters(text) ==
  IF text.stripped_len < MinBodyLength THEN FALSE
  ELSE IF ~text.keyword THEN FALSE
  ELSE text.indicator \/ text.afriwork
\* skip patterns, length, "/" count, job keyword, then indicators
is_job_posting(text) ==
  IF text.skip_pattern THEN FALSE
  ELSE IF text.stripped_len < MinBodyLength THEN FALSE
  ELSE IF text.slashes > MaxSlashes THEN FALSE
  ELSE IF ~text.keyword THEN FALSE
  ELSE text.indicator \/ text.afriwork

\* the first two link patterns have no group: match.group(1) raises
extract_application_link(text) ==
  IF text.forms_gle
  THEN [raised |-> "IndexError", link |-> ""]
  ELSE [raised |-> "", link |-> ""]

\* None on an exception of an extractor, on no title and on no description
extract_job_data(m) ==
  IF extract_application_link(m.text).raised # "" THEN NoneValue
  ELSE IF m.text.title = "" \/ m.text.description = "" THEN NoneValue
  ELSE [title |-> m.text.title, description |-> m.text.description,
        location |-> m.text.location, job_type |-> m.text.job_type,
        telegram_message_id |-> m.id, telegram_channel |-> m.chat_id]

\* json.dumps inside format_json_job_message: the name json must be bound
format_json_job_message(job_json) ==
  IF "json" \in ModuleNames
  THEN [raised |-> "", text |-> job_json]
  ELSE [raised |-> "NameError", text |-> << >>]

\* SELECT ... FROM users WHERE telegram_id IS NOT NULL ORDER BY user_id
get_all_users ==
  LET rows == SelectSeq(UsersTable, LAMBDA u : u.telegram_id # NullTelegramId)
  IN [i \in 1..Len(rows) |->
        [user_id |-> rows[i].user_id, full_name |-> rows[i].full_name,
         username |-> rows[i].username, telegram_id |-> rows[i].telegram_id,
         role |-> rows[i].role]]

\* ------------------------------------------- preference-matching vocabulary
\* The sub-matches of the preference matcher as the specification words
\* them; strings are compared lower-cased, as sequences of words.
Lower(str) ==
  CASE str = "" -> << >>
    [] str = "Remote" -> <<"remote">>
    [] str = "Backend Engineer" -> <<"backend", "engineer">>
    [] str = "Data Analyst" -> <<"data", "analyst">>
    [] str = "any location" -> <<"any", "location">>
    [] str = "all job types" -> <<"all", "job", "types">>
    [] OTHER -> <<str>>
Contains(hay, needle) ==
  /\ needle # << >>
  /\ \E i \in 1..(Len(hay) - Len(needle) + 1) :
       SubSeq(hay, i, i + Len(needle) - 1) = needle
EitherContains(a, b) == Contains(a, b) \/ Contains(b, a)
LocationMatch(prefs, job) ==
  \E l \in prefs.preferred_locations :
    \/ l \in {"any", "any location"}
    \/ EitherContains(Lower(job.location), Lower(l))
    \/ /\ l = "remote"
       /\ \/ Contains(Lower(job.location), <<"remote">>)
          \/ Contains(Lower(job.location), <<"work", "from", "home">>)
TypeMatch(prefs, job) ==
  \E t \in prefs.preferred_job_types :
    \/ t \in {"all", "all job types"}
    \/ EitherContains(Lower(job.job_type), Lower(t))
KeywordMatch(prefs, job) ==
  \/ prefs.preferred_categories = {} /\ prefs.keywords = {}
  \/ \E k \in prefs.preferred_categories \cup prefs.keywords :
       \/ Contains(Lower(job.title), Lower(k))
       \/ Contains(Lower(job.description), Lower(k))
SubMatched(prefs, job) ==
  LocationMatch(prefs, job) \/ TypeMatch(prefs, job) \/ KeywordMatch(prefs, job)
WeightedScore(prefs, job) ==
  (IF LocationMatch(prefs, job) THEN 2 ELSE 0)
  + (IF TypeMatch(prefs, job) THEN 1 ELSE 0)
  + (IF KeywordMatch(prefs, job) THEN 2 ELSE 0)
HasProfile(user_id) == user_id \in DOMAIN UserPreferences

RecipientsMatched(job_data) ==
  SelectSeq(get_all_users,
            LAMBDA u : HasProfile(u.user_id)
                         => SubMatched(UserPreferences[u.user_id], job_data))
RecipientsScored(job_data) ==
  [i \in 1..Len(get_all_users) |->
     [user_id |-> get_all_users[i].user_id,
      full_name |-> get_all_users[i].full_name,
      username |-> get_all_users[i].username,
      telegram_id |-> get_all_users[i].telegram_id,
      role |-> get_all_users[i].role,
      score |-> IF HasProfile(get_all_users[i].user_id)
                THEN WeightedScore(UserPreferences[get_all_users[i].user_id],
                                   job_data)
                ELSE 1]]
RecipientsByJobLocation(job_data) ==
  SelectSeq(get_all_users,
            LAMBDA u : HasProfile(u.user_id)
                         => \E l \in UserPreferences[u.user_id].preferred_locations :
                              EitherContains(Lower(job_data.location), Lower(l)))
RecipientsAiGated(job_data) ==
  SelectSeq(get_all_users,
            LAMBDA u : gemini = "initialised" \/ ~HasProfile(u.user_id))
\* users = await self.get_all_users(): the recipients of a job are all the
\* rows of the user query; job_data is not looked at
Recipients(job_data) == get_all_users

UniqueViolationNoConstraint(posts, job) == FALSE
\* UNIQUE constraint of job_posts.telegram_message_id
UniqueViolation(posts, job) ==
  \E i \in 1..Len(posts) :
    posts[i].telegram_message_id = job.telegram_message_id

AwaitPointsWithMark == {"mark", "extract", "save", "users", "send"}
\* pcs at which a run is suspended in an await and the loop is free
AwaitPoints == {"extract", "save", "users", "send"}

ClearMessagesAtHalf(size) == size > CacheLimit \div 2
\* len(self.processed_messages) > 1000 -> clear()
ClearMessages(size) == size > CacheLimit
ClearContentForgotten(size) == FALSE
\* len(self.processed_content) > 1000 -> clear()
ClearContent(size) == size > CacheLimit

AfterSaveNoReturn(post_id) == "users"
\* where process_and_forward_job goes after save_job_post_to_db
AfterSave(post_id) == IF post_id = 0 THEN "done" ELSE "users"

AfterTimeoutResume(pc) == pc
\* where a run goes when asyncio.wait_for gives up on its awaited step: the
\* step is cancelled and the handler's except asyncio.TimeoutError logs it
AfterTimeout(pc) == "done"

AfterExtractNoCheck(job_data) == "save"
\* where handle_job_post goes after extract_job_data: if job_data: ... else
AfterExtract(job_data) == IF job_data = NoneValue THEN "done" ELSE "save"

AfterClassifyNoElse(isJob) == "extract"
\* where handle_job_post goes after is_job_posting
AfterClassify(isJob) == IF isJob THEN "extract" ELSE "done"

InFlight == Cardinality({r \in 1..Len(runs) : runs[r].pc # "done"})

\* no call of batch_match_jobs has been made
InitBatch ==
  /\ batch = [status |-> "idle", jobs |-> << >>, users |-> << >>,
              job |-> 0, user |-> 0]
  /\ matches = << >>
  /\ batch_log = << >>

\* is_job_posting has not been given a text
InitClassify ==
  /\ classify_in = << >>
  /\ classify_out = NoneValue

\* users who submit payments; Config.ADMIN_IDS and a user who is not in it
PayUsers == {1, 2}
AdminId == 800
NonAdminId == 801
ADMIN_IDS == {AdminId}

\* no payment has been submitted and nobody has a subscription
InitPayments ==
  /\ pending_payments = << >>
  /\ subscriptions =
       [u \in PayUsers |->
          [status |-> "none", transaction_ref |-> 0, renewal_count |-> 0]]
  /\ payment_calls = << >>
  /\ payment_log = << >>

\* users of the referral program; NULL in columns referral_code, referred_by
RefUsers == {1, 2, 3}
NullCode == 0
NullUser == 0
\* available_balance and total_earnings of user 1 when the bot starts
StartBalance == 8
\* /withdraw: "Minimum withdrawal is 5 ETB"; a referral earns 1.00
MinWithdrawal == 5
ReferralCredit == 1

\* user 1 registered earlier, has a referral code and earnings; users 2 and
\* 3 have no row in table users yet
InitReferrals ==
  /\ referral_users =
       [u \in RefUsers |->
          [saved |-> u = 1,
           referral_code |-> IF u = 1 THEN 1 ELSE NullCode,
           total_earnings |-> IF u = 1 THEN StartBalance ELSE 0,
           available_balance |-> IF u = 1 THEN StartBalance ELSE 0,
           referred_by |-> NullUser]]
  /\ referral_log = << >>
  /\ withdraw_calls = << >>

InitServices == InitBatch /\ InitClassify /\ InitPayments /\ InitReferrals

Init ==
  /\ processed_messages = {}
  /\ processed_content = {}
  /\ msgFill = 0
  /\ contentFill = 0
  /\ runs = << >>
  /\ running = 0
  /\ job_posts = << >>
  /\ sent = << >>
  /\ bot_instance \in BOOLEAN
  /\ clears = 0
  /\ gemini = "uninitialised"
  /\ ai_calls = << >>
  /\ extract_in = << >>
  /\ extract_out = NoneValue
  /\ InitServices

FinishUnmarks ==
  /\ processed_messages' = {} /\ msgFill' = 0
  /\ processed_content' = {} /\ contentFill' = 0
  /\ clears' = clears
\* lines 156-164, executed at the end of every run that got past the checks
Finish ==
  /\ processed_messages' =
       IF ClearMessages(SizeMessages) THEN {} ELSE processed_messages
  /\ msgFill' = IF ClearMessages(SizeMessages) THEN 0 ELSE msgFill
  /\ processed_content' =
       IF ClearContent(SizeContent) THEN {} ELSE processed_content
  /\ contentFill' = IF ClearContent(SizeContent) THEN 0 ELSE contentFill
  /\ clears' = IF ClearMessages(SizeMessages) \/ ClearContent(SizeContent)
               THEN clears + 1 ELSE clears

NoFinish ==
  UNCHANGED <<processed_messages, processed_content, msgFill, contentFill,
              clears>>

\* the run r moves to pc p with event e appended to its trace; the loop is
\* released when p is an await point or the run is over
Step(r, p, e, upd) ==
  /\ runs' = [runs EXCEPT ![r] =
                [upd EXCEPT !.pc = p, !.trace = Append(upd.trace, e),
                            !.cleared = p = "done" /\
                              (ClearMessages(SizeMessages) \/
                               ClearContent(SizeContent))]]
  /\ running' = IF p \in AwaitPoints \/ p = "done" THEN 0 ELSE r
  /\ IF p = "done" THEN Finish ELSE NoFinish
  /\ UNCHANGED <<gemini, ai_calls, extract_in, extract_out, Services>>

CanStep(r) ==
  /\ r \in 1..Len(runs)
  /\ \/ running = r
     \/ running = 0 /\ runs[r].pc \in AwaitPoints

\* lines 91-120: a NewMessage event starts a run and goes through the checks
Receive(m, me) ==
  /\ running = 0
  /\ Len(runs) < MaxPresentations
  /\ InFlight < MaxInFlight
  /\ LET v == GateVerdict(m, me, processed_messages, processed_content)
         run == [msg |-> m, verdict |-> v,
                 pc |-> IF v = "pass" THEN "mark" ELSE "done",
                 trace |-> << >>, epoch |-> clears, post_id |-> 0,
                 users |-> << >>, idx |-> 0, cleared |-> FALSE, ai |-> ""]
     IN /\ runs' = Append(runs, run)
        /\ running' = IF run.pc \in AwaitPoints \/ run.pc = "done"
                      THEN 0 ELSE Len(runs) + 1
  /\ UNCHANGED <<processed_messages, processed_content, msgFill, contentFill,
                 job_posts, sent, bot_instance, clears, gemini, ai_calls,
                 extract_in, extract_out, Services>>

\* lines 122-124
Mark(r) ==
  /\ CanStep(r)
  /\ runs[r].pc = "mark"
  /\ LET seen == MarkProcessed([messages |-> processed_messages,
                                content |-> processed_content], runs[r].msg)
     IN /\ processed_messages' = seen.messages
        /\ processed_content' = seen.content
  /\ runs' = [runs EXCEPT ![r].pc = "classify", ![r].verdict = "admitted",
                          ![r].epoch = clears,
                          ![r].trace = Append(runs[r].trace, "admit")]
  /\ running' = r
  /\ UNCHANGED <<msgFill, contentFill, job_posts, sent, bot_instance, clears,
                 gemini, ai_calls, extract_in, extract_out, Services>>

\* line 129
Classify(r) ==
  /\ CanStep(r)
  /\ runs[r].pc = "classify"
  /\ LET isJob == is_job_posting(runs[r].msg.text)
     IN Step(r, AfterClassify(isJob),
             IF isJob THEN "job_like" ELSE "not_job", runs[r])
  /\ UNCHANGED <<job_posts, sent, bot_instance>>

\* lines 133-147: the awaited extract_job_data returns
Extract(r) ==
  /\ CanStep(r)
  /\ runs[r].pc = "extract"
  /\ LET job_data == extract_job_data(runs[r].msg)
     IN Step(r, AfterExtract(job_data),
             IF job_data = NoneValue THEN "no_data" ELSE "extracted", runs[r])
  /\ UNCHANGED <<job_posts, sent, bot_instance>>

\* lines 513-516 and 554-580: the INSERT returns a row, or fails
Save(r, dbOk) ==
  /\ CanStep(r)
  /\ runs[r].pc = "save"
  /\ LET job_data == extract_job_data(runs[r].msg)
         ok == dbOk /\ ~UniqueViolation(job_posts, job_data)
         post_id == IF ok THEN Len(job_posts) + 1 ELSE 0
     IN /\ job_posts' =
             IF ok
             THEN Append(job_posts,
                         [post_id |-> post_id,
                          telegram_message_id |-> job_data.telegram_message_id,
                          telegram_channel |-> job_data.telegram_channel,
                          title |-> job_data.title,
                          run |-> r])
             ELSE job_posts
        /\ Step(r, AfterSave(post_id),
                IF ok THEN "saved" ELSE "save_failed",
                [runs[r] EXCEPT !.post_id = post_id])
  /\ UNCHANGED <<sent, bot_instance>>

\* lines 521-526 and 536-552: the user query returns rows, or fails
GetUsers(r, dbOk) ==
  /\ CanStep(r)
  /\ runs[r].pc = "users"
  /\ LET users == IF dbOk THEN Recipients(extract_job_data(runs[r].msg))
                  ELSE << >>
     IN IF users = << >>
        THEN Step(r, "done", "no_users", runs[r])
        ELSE Step(r, "forward", "users",
                  [runs[r] EXCEPT !.users = users, !.idx = 1, !.ai = gemini])
  /\ UNCHANGED <<job_posts, sent, bot_instance>>

\* lines 529-531 and 624-665: one pass of the broadcast loop; at pc "send"
\* the awaited send_message returns
ForwardJobToUser(r, sendOk) ==
  /\ CanStep(r)
  /\ runs[r].pc \in {"forward", "send"}
  /\ LET run == runs[r]
         user == run.users[run.idx]
         message == format_json_job_message([post_id |-> run.post_id,
                                             title |-> run.msg.text.title])
         last == run.idx = Len(run.users)
         next == [run EXCEPT !.idx = run.idx + 1]
         nextPc == IF last THEN "done" ELSE "forward"
     IN IF run.pc = "send"
        THEN /\ sent' = Append(sent, [user_id |-> user.user_id,
                                      post_id |-> run.post_id, ok |-> sendOk])
             /\ Step(r, nextPc, IF sendOk THEN "sent" ELSE "send_failed", next)
        ELSE IF message.raised # ""
        THEN /\ sent' = sent
             /\ Step(r, nextPc, "forward_error", next)
        ELSE IF bot_instance
        THEN /\ sent' = sent
             /\ Step(r, "send", "forward", run)
        ELSE /\ sent' = sent
             /\ Step(r, nextPc, "no_bot", next)
  /\ UNCHANGED <<job_posts, bot_instance>>

\* lines 133-136, 142-145, 151-152: asyncio.wait_for gives up on the
\* suspended step and the handler logs the TimeoutError
Timeout(r) ==
  /\ CanStep(r)
  /\ running = 0
  /\ runs[r].pc \in AwaitPoints
  /\ Step(r, AfterTimeout(runs[r].pc), "timeout", runs[r])
  /\ UNCHANGED <<job_posts, sent, bot_instance>>

\* a burst of handler runs for fresh messages outside Messages, each from
\* another sender, long enough, new by identity and content and not a job:
\* every such run adds one key to each seen-set and ends at lines 156-164.
\* The burst stops with the run that clears the sets.
FillerBurst ==
  /\ running = 0
  /\ clears < MaxClears
  /\ LET k == Max(1, Min(FillerBurstSize, CacheLimit + 1 - SizeMessages))
         sm == SizeMessages + k
         sc == SizeContent + k
     IN /\ processed_messages' =
             IF ClearMessages(sm) THEN {} ELSE processed_messages
        /\ msgFill' = IF ClearMessages(sm) THEN 0 ELSE msgFill + k
        /\ processed_content' =
             IF ClearContent(sc) THEN {} ELSE processed_content
        /\ contentFill' = IF ClearContent(sc) THEN 0 ELSE contentFill + k
        /\ clears' = IF ClearMessages(sm) \/ ClearContent(sc)
                     THEN clears + 1 ELSE clears
  /\ UNCHANGED <<runs, running, job_posts, sent, bot_instance, gemini,
                 ai_calls, extract_in, extract_out, Services>>

Pipeline ==
  <<processed_messages, processed_content, msgFill, contentFill, runs,
    running, job_posts, sent, bot_instance, clears>>

\* GeminiJobMatcher.initialize, awaited by JobScraper.initialize: without an
\* API key, or when the configuration raises, the model stays None
GeminiInitialize(ok) ==
  /\ gemini = "uninitialised"
  /\ gemini' = IF ok THEN "initialised" ELSE "uninitialised"
  /\ UNCHANGED <<Pipeline, ai_calls, extract_in, extract_out, Services>>

\* the Gemini API behind an initialised model changes its condition
GeminiService(mode) ==
  /\ gemini # "uninitialised"
  /\ mode # "uninitialised"
  /\ gemini' = mode
  /\ UNCHANGED <<Pipeline, ai_calls, extract_in, extract_out, Services>>

\* one call of match_job_to_user; reply is what the API would answer
MatchJobToUser(reply) ==
  /\ Len(ai_calls) < MaxAiCalls
  /\ ai_calls' = Append(ai_calls,
                        [mode |-> gemini,
                         response |-> generate_content(gemini, reply),
                         outcome |-> match_job_to_user(gemini, reply)])
  /\ UNCHANGED <<Pipeline, gemini, extract_in, extract_out, Services>>

Next ==
  \/ \E m \in Messages, me \in GetMeResults : Receive(m, me)
  \/ \E r \in 1..MaxPresentations : Mark(r)
  \/ \E r \in 1..MaxPresentations : Classify(r)
  \/ \E r \in 1..MaxPresentations : Extract(r)
  \/ \E r \in 1..MaxPresentations, dbOk \in BOOLEAN : Save(r, dbOk)
  \/ \E r \in 1..MaxPresentations, dbOk \in BOOLEAN : GetUsers(r, dbOk)
  \/ \E r \in 1..MaxPresentations, sendOk \in BOOLEAN : ForwardJobToUser(r, sendOk)
  \/ \E r \in 1..MaxPresentations : Timeout(r)
  \/ FillerBurst

Spec == Init /\ [][Next]_vars

\* lines 274-289: the field extractors applied to one text
ExtractFields ==
  /\ extract_out = NoneValue
  /\ extract_in # << >>
  /\ extract_out' = [title |-> extract_title(extract_in),
                     job_type |-> extract_job_type(extract_in),
                     location |-> extract_location(extract_in),
                     salary |-> extract_salary(extract_in),
                     deadline |-> extract_deadline(extract_in)]
  /\ UNCHANGED <<Pipeline, gemini, ai_calls, extract_in, Services>>

\* the extractors on every text of up to MaxLines lines
InitExtract ==
  /\ processed_messages = {} /\ processed_content = {}
  /\ msgFill = 0 /\ contentFill = 0
  /\ runs = << >> /\ running = 0
  /\ job_posts = << >> /\ sent = << >>
  /\ bot_instance = FALSE /\ clears = 0
  /\ gemini = "uninitialised" /\ ai_calls = << >>
  /\ extract_in \in UNION {[1..n -> LineKinds] : n \in 1..MaxLines}
  /\ extract_out = NoneValue
  /\ InitServices

NextExtract == ExtractFields

SpecExtract == InitExtract /\ [][NextExtract]_vars

\* ---------------------------------------------------- is_job_posting alone
\* A line of a text, by what is_job_posting reads from it: the structured
\* label of the claim that it holds ("" for none), its length,
\* whether a skip pattern, a job keyword, a job indicator and an Afriwork
\* label occur in it (lower-cased), and its number of "/".
ClassLine(raw, label, len, skip, keyword, indicator, afriwork, slashes) ==
  [raw |-> raw, label |-> label, len |-> len, skip |-> skip, keyword |-> keyword,
   indicator |-> indicator, afriwork |-> afriwork, slashes |-> slashes]
ClassifierLines ==
  { \* 'job' and 'job title:'
    ClassLine("Job Title: Backend Engineer", "Job Title:", 27, FALSE, TRUE, TRUE, TRUE, 0),
    \* 'work' and 'work location:'
    ClassLine("Work Location: Addis Ababa", "Work Location:", 26, FALSE, TRUE, TRUE, TRUE, 0),
    \* 'salary/compensation:', 'compensation:', no job keyword
    ClassLine("Salary/Compensation: 20,000 Birr", "Salary/Compensation:", 32,
              FALSE, FALSE, TRUE, TRUE, 1),
    \* 'deadline:', no job keyword
    ClassLine("Deadline: 2025-01-01", "Deadline:", 20, FALSE, FALSE, TRUE, TRUE, 0),
    \* 'position' and 'position:'
    ClassLine("Position: Driver, full time in Adama, 5,000 birr", "", 48,
              FALSE, TRUE, TRUE, FALSE, 0),
    \* 'apply' is a skip pattern and a job keyword
    ClassLine("How to apply: send your CV to hr@example.com", "", 44, TRUE,
              TRUE, FALSE, FALSE, 0),
    \* 'hiring' without a colon
    ClassLine("We are hiring experienced drivers in Adama now", "", 46,
              FALSE, TRUE, FALSE, FALSE, 0),
    ClassLine("Good morning everyone, see you at the meeting today", "", 51,
              FALSE, FALSE, FALSE, FALSE, 0) }

RECURSIVE SumOf(_)
SumOf(numbers) ==
  IF numbers = << >> THEN 0 ELSE Head(numbers) + SumOf(Tail(numbers))

\* "\n".join(lines) as is_job_posting reads it
TextOfLines(lines) ==
  LET n == Len(lines)
      length == SumOf([i \in 1..n |-> lines[i].len]) + (n - 1)
  IN [bytes |-> [i \in 1..n |-> lines[i].raw],
      raw_len |-> length, stripped_len |-> length,
      skip_pattern |-> \E i \in 1..n : lines[i].skip,
      slashes |-> SumOf([i \in 1..n |-> lines[i].slashes]),
      keyword |-> \E i \in 1..n : lines[i].keyword,
      indicator |-> \E i \in 1..n : lines[i].indicator,
      afriwork |-> \E i \in 1..n : lines[i].afriwork]

\* lines 203-266 applied to one text
IsJobPosting ==
  /\ classify_out = NoneValue
  /\ classify_in # << >>
  /\ classify_out' = [is_job |-> is_job_posting(TextOfLines(classify_in))]
  /\ UNCHANGED <<Pipeline, gemini, ai_calls, extract_in, extract_out,
                 BatchVars, classify_in, PaymentVars, ReferralVars>>

\* the classifier on every text of up to MaxLines of these lines
InitTexts ==
  /\ processed_messages = {} /\ processed_content = {}
  /\ msgFill = 0 /\ contentFill = 0
  /\ runs = << >> /\ running = 0
  /\ job_posts = << >> /\ sent = << >>
  /\ bot_instance = FALSE /\ clears = 0
  /\ gemini = "uninitialised" /\ ai_calls = << >>
  /\ extract_in = << >> /\ extract_out = NoneValue
  /\ InitBatch /\ InitPayments /\ InitReferrals
  /\ classify_in \in UNION {[1..n -> ClassifierLines] : n \in 1..MaxLines}
  /\ classify_out = NoneValue

NextClassify == IsJobPosting

SpecClassify == InitTexts /\ [][NextClassify]_vars

\* ------------------------------------------------------- batch_match_jobs
\* bool(x) of a JSON value: false for False, 0.0 and ""
Truthy(v) ==
  CASE v.type = "str" -> v.chars # ""
    [] OTHER -> v.value # 0

\* the body of the inner loop for one (job, user) pair: prefsLate and
\* matchLate say that the 5 s and the 20 s of the two wait_for ran out;
\* raised is what leaves the try statement with its two except clauses
batch_iteration(mode, reply, prefsLate, matchLate) ==
  LET late == prefsLate \/ matchLate
      match_result == match_job_to_user(mode, reply).result
      inTry ==
        IF late THEN "TimeoutError"
        ELSE IF "is_match" \notin DOMAIN match_result THEN "KeyError"
        ELSE IF /\ Truthy(match_result.is_match)
                /\ ~({"match_score", "match_reason", "recommendation"}
                       \subseteq DOMAIN match_result)
        THEN "KeyError"
        ELSE ""
  IN [raised |-> "",
      caught |-> inTry,
      match_result |-> IF late THEN NoObject ELSE match_result,
      append |-> inTry = "" /\ Truthy(match_result.is_match)]

\* the jobs and users a caller hands to batch_match_jobs
BatchJobs ==
  <<extract_job_data(Msg(1, 1, JobA, FALSE, OtherId)),
    extract_job_data(Msg(2, 1, JobB, FALSE, OtherId))>>
BatchUsers == get_all_users

\* batch_match_jobs is called: matches = [] and the loops start
BatchMatchJobs(nJobs, nUsers) ==
  /\ batch.status = "idle"
  /\ batch' = [status |-> "running", jobs |-> SubSeq(BatchJobs, 1, nJobs),
               users |-> SubSeq(BatchUsers, 1, nUsers), job |-> 1, user |-> 1]
  /\ matches' = << >>
  /\ UNCHANGED <<Pipeline, gemini, ai_calls, extract_in, extract_out,
                 batch_log, ClassifyVars, PaymentVars, ReferralVars>>

\* one pass of the inner loop; after the last pair the function returns
\* matches, and an exception that left the loop body would end the call
BatchPair(reply, prefsLate, matchLate) ==
  /\ batch.status = "running"
  /\ LET job == batch.jobs[batch.job]
         user == batch.users[batch.user]
         it == batch_iteration(gemini, reply, prefsLate, matchLate)
         lastUser == batch.user = Len(batch.users)
         lastPair == lastUser /\ batch.job = Len(batch.jobs)
     IN /\ matches' =
             IF it.append
             THEN Append(matches,
                         [user_id |-> user.user_id,
                          user_telegram_id |-> user.telegram_id,
                          job_data |-> job,
                          match_score |-> it.match_result.match_score,
                          match_reason |-> it.match_result.match_reason,
                          recommendation |-> it.match_result.recommendation])
             ELSE matches
        /\ batch_log' = Append(batch_log,
                               [job |-> job, user_id |-> user.user_id,
                                caught |-> it.caught,
                                match_result |-> it.match_result])
        /\ batch' =
             IF it.raised # "" THEN [batch EXCEPT !.status = "raised"]
             ELSE IF lastPair THEN [batch EXCEPT !.status = "returned"]
             ELSE IF lastUser
             THEN [batch EXCEPT !.job = @ + 1, !.user = 1]
             ELSE [batch EXCEPT !.user = @ + 1]
  /\ UNCHANGED <<Pipeline, gemini, ai_calls, extract_in, extract_out,
                 ClassifyVars, PaymentVars, ReferralVars>>

NextBatch ==
  \/ \E ok \in BOOLEAN : GeminiInitialize(ok)
  \/ \E mode \in AiModes : GeminiService(mode)
  \/ \E nJobs \in 1..MaxBatchJobs, nUsers \in 1..MaxBatchUsers :
       BatchMatchJobs(nJobs, nUsers)
  \/ \E reply \in Replies, prefsLate, matchLate \in BOOLEAN :
       BatchPair(reply, prefsLate, matchLate)

SpecBatch == Init /\ [][NextBatch]_vars

\* ------------------------------------------------------- payment approval
\* the tables approve_payment and reject_payment read and write
PaymentDb ==
  [pending_payments |-> pending_payments, subscriptions |-> subscriptions,
   payment_log |-> payment_log]

\* UPDATE pending_payments SET status = ..., approved_by = ... WHERE
\* payment_id = $n: the row is written whatever its status is
UpdateStatus(db, payment_id, status, admin_id) ==
  IF payment_id \in 1..Len(db.pending_payments)
  THEN [db EXCEPT
          !.pending_payments[payment_id].status = status,
          !.pending_payments[payment_id].approved_by = admin_id,
          !.payment_log =
             Append(@, [payment_id |-> payment_id,
                        from |-> db.pending_payments[payment_id].status,
                        to |-> status])]
  ELSE db

\* INSERT INTO subscriptions ... ON CONFLICT (user_id) DO UPDATE
ActivateSubscription(db, payment) ==
  [db EXCEPT
     !.subscriptions[payment.user_id] =
        [status |-> "active", transaction_ref |-> payment.reference,
         renewal_count |->
           IF @.status = "none" THEN 0 ELSE @.renewal_count + 1]]

\* approve_payment; failAt names the database call that raises, if any
approve_payment(db, payment_id, admin_id, failAt) ==
  LET found == /\ payment_id \in 1..Len(db.pending_payments)
               /\ db.pending_payments[payment_id].status = "pending"
      payment == db.pending_payments[payment_id]
      updated == UpdateStatus(db, payment_id, "approved", admin_id)
  IN IF failAt = "select" THEN [db |-> db, success |-> FALSE]
     ELSE IF ~found THEN [db |-> db, success |-> FALSE]
     ELSE IF failAt = "update" THEN [db |-> db, success |-> FALSE]
     ELSE IF failAt = "insert" THEN [db |-> updated, success |-> FALSE]
     ELSE [db |-> ActivateSubscription(updated, payment), success |-> TRUE]

\* reject_payment: the UPDATE comes first and has no condition on status
reject_payment(db, payment_id, admin_id, failAt) ==
  LET updated == UpdateStatus(db, payment_id, "rejected", admin_id)
  IN IF failAt = "update" THEN [db |-> db, success |-> FALSE]
     ELSE IF failAt = "select" THEN [db |-> updated, success |-> FALSE]
     ELSE [db |-> updated, success |-> TRUE]

\* submit_payment_for_approval: INSERT INTO pending_payments ... 'pending'
SubmitPayment(user_id) ==
  /\ Len(pending_payments) < MaxPayments
  /\ pending_payments' =
       Append(pending_payments,
              [user_id |-> user_id, status |-> "pending", approved_by |-> 0,
               reference |-> Len(pending_payments) + 1])
  /\ UNCHANGED <<Pipeline, gemini, ai_calls, extract_in, extract_out,
                 BatchVars, ClassifyVars, subscriptions, payment_calls,
                 payment_log, ReferralVars>>

\* handle_payment_approval: the admin check, then approve or reject
HandlePaymentApproval(admin_user, payment_id, action, failAt) ==
  /\ Len(payment_calls) < MaxPaymentCalls
  /\ LET result ==
           IF admin_user \notin ADMIN_IDS
           THEN [db |-> PaymentDb, success |-> FALSE]
           ELSE IF action = "approve"
           THEN approve_payment(PaymentDb, payment_id, admin_user, failAt)
           ELSE IF action = "reject"
           THEN reject_payment(PaymentDb, payment_id, admin_user, failAt)
           ELSE [db |-> PaymentDb, success |-> FALSE]
     IN /\ pending_payments' = result.db.pending_payments
        /\ subscriptions' = result.db.subscriptions
        /\ payment_log' = result.db.payment_log
        /\ payment_calls' =
             Append(payment_calls,
                    [admin_user |-> admin_user, payment_id |-> payment_id,
                     action |-> action, success |-> result.success])
  /\ UNCHANGED <<Pipeline, gemini, ai_calls, extract_in, extract_out,
                 BatchVars, ClassifyVars, ReferralVars>>

NextPayment ==
  \/ \E user_id \in PayUsers : SubmitPayment(user_id)
  \/ \E admin_user \in {AdminId, NonAdminId}, payment_id \in 1..MaxPayments,
        action \in {"approve", "reject", "verify"},
        failAt \in {"none", "select", "update", "insert"} :
       HandlePaymentApproval(admin_user, payment_id, action, failAt)

SpecPayment == Init /\ [][NextPayment]_vars

\* ------------------------------------------------------- referral program
\* a referral code f"REF{user_id:012}" is written as the user_id; a code of
\* that shape that no user has; 0 when the start link carried no code
UnknownCode == 9
RefCodes == RefUsers \cup {UnknownCode}

\* get_user_referral_code / generate_referral_code: UPDATE users SET
\* referral_code = ... WHERE user_id = ... for a user without a code
ReferralCommand(user_id) ==
  /\ referral_users[user_id].saved
  /\ referral_users[user_id].referral_code = NullCode
  /\ referral_users' = [referral_users EXCEPT ![user_id].referral_code = user_id]
  /\ UNCHANGED <<Pipeline, gemini, ai_calls, extract_in, extract_out,
                 BatchVars, ClassifyVars, PaymentVars, referral_log,
                 withdraw_calls>>

\* db.save_user: INSERT ... ON CONFLICT (user_id) DO UPDATE of the name and
\* phone columns; the referral columns of an existing row are kept
save_user(users, user_id) == [users EXCEPT ![user_id].saved = TRUE]

\* process_referral; failAt names the query that fails inside
\* execute_query, which then returns [] instead of raising
process_referral(users, referral_code, new_user_id, failAt) ==
  LET result ==
        IF failAt = "lookup" THEN {}
        ELSE {u \in RefUsers :
                users[u].saved /\ users[u].referral_code = referral_code}
      referrer_id == CHOOSE u \in result : TRUE
      \* SELECT 1 FROM users WHERE referred_by = new_user_id
      existing_referral ==
        IF failAt = "check" THEN {}
        ELSE {u \in RefUsers :
                users[u].saved /\ users[u].referred_by = new_user_id}
      credited ==
        IF failAt = "credit" THEN users
        ELSE [users EXCEPT
                ![referrer_id].total_earnings = @ + ReferralCredit,
                ![referrer_id].available_balance = @ + ReferralCredit]
      linked ==
        IF failAt = "link" \/ ~credited[new_user_id].saved THEN credited
        ELSE [credited EXCEPT ![new_user_id].referred_by = referrer_id]
  IN IF result = {}
     THEN [users |-> users, success |-> FALSE, referrer_id |-> NullUser]
     ELSE IF existing_referral # {}
     THEN [users |-> users, success |-> FALSE, referrer_id |-> NullUser]
     ELSE IF referrer_id = new_user_id
     THEN [users |-> users, success |-> FALSE, referrer_id |-> NullUser]
     ELSE [users |-> linked, success |-> TRUE, referrer_id |-> referrer_id]

\* contact_received with context.user_data['referral_code'] set by /start:
\* the user is saved, then the referral is processed
ContactReceived(user_id, referral_code, failAt) ==
  /\ Len(referral_log) < MaxReferrals
  /\ LET saved == save_user(referral_users, user_id)
         r == process_referral(saved, referral_code, user_id, failAt)
         balances(users) ==
           [u \in RefUsers |->
              <<users[u].total_earnings, users[u].available_balance>>]
     IN /\ referral_users' = r.users
        /\ referral_log' =
             Append(referral_log,
                    [referral_code |-> referral_code,
                     new_user_id |-> user_id,
                     known |-> \E u \in RefUsers :
                                 /\ saved[u].saved
                                 /\ saved[u].referral_code = referral_code,
                     success |-> r.success,
                     referrer_id |-> r.referrer_id,
                     credited |-> {u \in RefUsers :
                                     balances(r.users)[u] # balances(saved)[u]}])
  /\ UNCHANGED <<Pipeline, gemini, ai_calls, extract_in, extract_out,
                 BatchVars, ClassifyVars, PaymentVars, withdraw_calls>>

NextReferral ==
  \/ \E user_id \in RefUsers : ReferralCommand(user_id)
  \/ \E user_id \in RefUsers, referral_code \in RefCodes,
        failAt \in {"none", "lookup", "check", "credit", "link"} :
       ContactReceived(user_id, referral_code, failAt)

SpecReferral == Init /\ [][NextReferral]_vars

\* ------------------------------------------------------------- withdrawals
\* amounts typed after /withdraw
Amounts == {3, 5, 8}

\* withdraw_command up to the first await of withdraw_earnings
WithdrawCommand(user_id, amount) ==
  /\ Len(withdraw_calls) < MaxWithdrawals
  /\ withdraw_calls' =
       Append(withdraw_calls,
              [user_id |-> user_id, amount |-> amount,
               pc |-> IF amount < MinWithdrawal THEN "done" ELSE "select",
               outcome |-> IF amount < MinWithdrawal THEN "below_minimum"
                           ELSE "",
               available_balance |-> 0, applied |-> FALSE])
  /\ UNCHANGED <<Pipeline, gemini, ai_calls, extract_in, extract_out,
                 BatchVars, ClassifyVars, PaymentVars, referral_users,
                 referral_log>>

\* lines 240-251: SELECT available_balance returns and the check is made
WithdrawSelect(c, ok) ==
  /\ c \in 1..Len(withdraw_calls)
  /\ withdraw_calls[c].pc = "select"
  /\ LET call == withdraw_calls[c]
         row == referral_users[call.user_id]
     IN withdraw_calls' =
          [withdraw_calls EXCEPT ![c] =
             IF ~ok \/ ~row.saved
             THEN [call EXCEPT !.pc = "done", !.outcome = "not_found"]
             ELSE IF row.available_balance < call.amount
             THEN [call EXCEPT !.pc = "done", !.outcome = "insufficient",
                               !.available_balance = row.available_balance]
             ELSE [call EXCEPT !.pc = "update",
                               !.available_balance = row.available_balance]]
  /\ UNCHANGED <<Pipeline, gemini, ai_calls, extract_in, extract_out,
                 BatchVars, ClassifyVars, PaymentVars, referral_users,
                 referral_log>>

\* lines 253-283: UPDATE users SET available_balance = available_balance -
\* amount, then the referral_data query and the success message
WithdrawUpdate(c, ok) ==
  /\ c \in 1..Len(withdraw_calls)
  /\ withdraw_calls[c].pc = "update"
  /\ LET call == withdraw_calls[c]
     IN /\ referral_users' =
             IF ok
             THEN [referral_users EXCEPT
                     ![call.user_id].available_balance = @ - call.amount]
             ELSE referral_users
        /\ withdraw_calls' =
             [withdraw_calls EXCEPT ![c] =
                [call EXCEPT !.pc = "done", !.outcome = "success",
                             !.applied = ok]]
  /\ UNCHANGED <<Pipeline, gemini, ai_calls, extract_in, extract_out,
                 BatchVars, ClassifyVars, PaymentVars, referral_log>>

\* withdrawal calls, interleaved at the awaits of withdraw_earnings
NextWithdraw ==
  \/ \E user_id \in RefUsers, amount \in Amounts :
       WithdrawCommand(user_id, amount)
  \/ \E c \in 1..MaxWithdrawals, ok \in BOOLEAN : WithdrawSelect(c, ok)
  \/ \E c \in 1..MaxWithdrawals, ok \in BOOLEAN : WithdrawUpdate(c, ok)

SpecWithdraw == Init /\ [][NextWithdraw]_vars

\* the matcher on its own: initialisation, API conditions and calls
NextMatcher ==
  \/ \E ok \in BOOLEAN : GeminiInitialize(ok)
  \/ \E mode \in AiModes : GeminiService(mode)
  \/ \E reply \in Replies : MatchJobToUser(reply)

SpecMatcher == Init /\ [][NextMatcher]_vars

\* the pipeline on two posts of one job and another job, with the matcher
\* initialised by JobScraper.initialize and the API changing its condition
AiMessages ==
  {m \in Messages : m.text \in {JobA, JobB} /\ ~m.out}

NextAi ==
  \/ \E ok \in BOOLEAN : GeminiInitialize(ok)
  \/ \E mode \in AiModes : GeminiService(mode)
  \/ \E m \in AiMessages, me \in GetMeResults : Receive(m, me)
  \/ \E r \in 1..MaxPresentations : Mark(r)
  \/ \E r \in 1..MaxPresentations : Classify(r)
  \/ \E r \in 1..MaxPresentations : Extract(r)
  \/ \E r \in 1..MaxPresentations, dbOk \in BOOLEAN : Save(r, dbOk)
  \/ \E r \in 1..MaxPresentations, dbOk \in BOOLEAN : GetUsers(r, dbOk)
  \/ \E r \in 1..MaxPresentations, sendOk \in BOOLEAN : ForwardJobToUser(r, sendOk)
  \/ \E r \in 1..MaxPresentations : Timeout(r)
  \/ FillerBurst

SpecAi == Init /\ [][NextAi]_vars

\* ------------------------------------------------------------- vocabulary
RunIds == 1..Len(runs)
Admitted(r) == runs[r].verdict = "admitted"
Passed(r) == runs[r].verdict \in {"pass", "admitted"}
SameKey(r1, r2) == MessageKey(runs[r1].msg) = MessageKey(runs[r2].msg)
SameBody(r1, r2) == runs[r1].msg.text.bytes = runs[r2].msg.text.bytes
SameEpoch(r1, r2) == runs[r1].epoch = runs[r2].epoch
Has(r, e) == \E i \in 1..Len(runs[r].trace) : runs[r].trace[i] = e
Count(r, es) ==
  Cardinality({i \in 1..Len(runs[r].trace) : runs[r].trace[i] \in es})
\* every occurrence of an event of `later` in the trace of r comes after an
\* occurrence of `first`
Precedes(r, first, later) ==
  \A i \in 1..Len(runs[r].trace) :
    runs[r].trace[i] \in later =>
      \E j \in 1..(i - 1) : runs[r].trace[j] = first
ExtractEvents == {"extracted", "no_data"}
FanOutEvents ==
  {"users", "no_users", "forward", "forward_error", "no_bot", "sent",
   "send_failed"}
SendsTo(r, u) ==
  Cardinality({i \in 1..Len(sent) :
                 sent[i].user_id = u.user_id /\ sent[i].post_id = runs[r].post_id})
\* the broadcast loop of run r ran to its end
LoopCompleted(r) ==
  /\ runs[r].pc = "done"
  /\ Has(r, "users")
  /\ runs[r].idx = Len(runs[r].users) + 1

\* C1: the same (chat_id, message_id, body) presented again without a clear
\* of the seen-sets in between is admitted once only: every later
\* presentation is rejected and starts no processing, and a message is only
\* rejected as already seen after an admission of the same identity.
C1_Idempotent ==
  /\ \A r1, r2 \in RunIds :
       (r1 < r2 /\ runs[r1].msg = runs[r2].msg /\ SameEpoch(r1, r2)
          /\ Admitted(r1))
       => (~Passed(r2) /\ runs[r2].pc = "done" /\ runs[r2].trace = << >>)
  /\ \A r \in RunIds :
       runs[r].verdict = "dup_id"
       => \E r0 \in 1..(r - 1) :
            Admitted(r0) /\ SameKey(r0, r) /\ SameEpoch(r0, r)
C1_Witness ==
  \E r1, r2 \in RunIds :
    /\ r1 < r2 /\ runs[r1].msg = runs[r2].msg /\ SameEpoch(r1, r2)
    /\ Admitted(r1) /\ runs[r2].verdict = "dup_id"

\* C2: a run marks its message only when neither the identity key nor the
\* content hash is in the seen-sets, and marking inserts both; so a message
\* with a new message_id and the body of a message admitted earlier (no
\* clear in between) is not admitted.
C2_MarkStep ==
  \A r \in RunIds :
    (runs[r].pc = "mark" /\ runs'[r].pc # "mark")
    => /\ MessageKey(runs[r].msg) \notin processed_messages
       /\ md5(runs[r].msg.text) \notin processed_content
       /\ MessageKey(runs[r].msg) \in processed_messages'
       /\ md5(runs[r].msg.text) \in processed_content'
C2_SameBodyRejected ==
  \A r1, r2 \in RunIds :
    (r1 < r2 /\ Admitted(r1) /\ SameBody(r1, r2) /\ ~SameKey(r1, r2)
       /\ SameEpoch(r1, r2))
    => ~Passed(r2)
C3_Original ==
  \A i, j \in 1..Len(job_posts) :
    i < j => /\ ~SameKey(job_posts[i].run, job_posts[j].run)
             /\ ~SameBody(job_posts[i].run, job_posts[j].run)
\* C3 (amended): no two rows of job_posts come from the same (chat_id,
\* message_id) pair, and two rows come from the same body only when a
\* seen-set was cleared between the two admissions.
C3_OncePerEpoch ==
  \A i, j \in 1..Len(job_posts) :
    i < j => /\ ~SameKey(job_posts[i].run, job_posts[j].run)
             /\ SameBody(job_posts[i].run, job_posts[j].run)
                  => ~SameEpoch(job_posts[i].run, job_posts[j].run)
C3_Witness ==
  \E i \in 1..Len(job_posts), r \in RunIds :
    /\ job_posts[i].run < r
    /\ SameBody(job_posts[i].run, r) /\ SameEpoch(job_posts[i].run, r)
    /\ runs[r].verdict = "dup_content" /\ runs[r].pc = "done"
    /\ \A j \in 1..Len(job_posts) : job_posts[j].run # r

\* C4 (as stated): two runs of the same message (same identity or same
\* body) are never both past the duplicate check and in the pipeline at the
\* same time.
C4_Original ==
  \A r1, r2 \in RunIds :
    (r1 # r2 /\ (SameKey(r1, r2) \/ SameBody(r1, r2))
       /\ runs[r1].pc # "done" /\ runs[r2].pc # "done")
    => ~(Passed(r1) /\ Passed(r2))
\* C4 (amended): two runs of the same message that went through the
\* duplicate check with no clear of a seen-set in between are never both
\* past the check and in the pipeline at the same time.
C4_AtomicCheckAndMark ==
  \A r1, r2 \in RunIds :
    (r1 # r2 /\ (SameKey(r1, r2) \/ SameBody(r1, r2)) /\ SameEpoch(r1, r2)
       /\ runs[r1].pc # "done" /\ runs[r2].pc # "done")
    => ~(Passed(r1) /\ Passed(r2))
C4_Witness ==
  \E r1, r2 \in RunIds :
    /\ r1 < r2 /\ (SameKey(r1, r2) \/ SameBody(r1, r2)) /\ SameEpoch(r1, r2)
    /\ Admitted(r1) /\ runs[r1].pc \in AwaitPoints
    /\ runs[r2].verdict \in {"dup_id", "dup_content"}

\* C5: a step that ends a run which got past the checks leaves at most 1000
\* keys in each seen-set, emptying a set that held more than 1000 and
\* leaving the other keys alone otherwise; a seen-set never shrinks to
\* anything but the empty set.
C5_FinishStep ==
  /\ \A r \in RunIds :
       (runs[r].pc # "done" /\ runs'[r].pc = "done")
       => /\ SizeMessages' <= CacheLimit /\ SizeContent' <= CacheLimit
          /\ IF SizeMessages > CacheLimit
             THEN SizeMessages' = 0
             ELSE processed_messages' = processed_messages
                    /\ msgFill' = msgFill
          /\ IF SizeContent > CacheLimit
             THEN SizeContent' = 0
             ELSE processed_content' = processed_content
                    /\ contentFill' = contentFill
  /\ SizeMessages' < SizeMessages => SizeMessages' = 0
  /\ SizeContent' < SizeContent => SizeContent' = 0
C5_BoundedMemory == [][C5_FinishStep]_vars
C5_Witness ==
  \E r \in RunIds :
    /\ runs[r].pc = "done" /\ runs[r].cleared
    /\ SizeMessages = 0 /\ SizeContent = 0

\* C6: a message whose body has fewer than 50 characters is rejected by the
\* checks, its handler step leaves both seen-sets as they were, and neither
\* its identity key nor its content hash is ever in a seen-set.
C6_ShortStep ==
  (Len(runs') = Len(runs) + 1
     /\ runs'[Len(runs')].msg.text.stripped_len < MinBodyLength)
  => /\ UNCHANGED <<processed_messages, processed_content, msgFill,
                    contentFill>>
     /\ runs'[Len(runs')].pc = "done"
     /\ ~(runs'[Len(runs')].verdict \in {"pass", "admitted"})
C6_ShortNeverMarked ==
  \A m \in Messages :
    m.text.stripped_len < MinBodyLength
    => /\ MessageKey(m) \notin processed_messages
       /\ md5(m.text) \notin processed_content
C6_ShortRejected == [][C6_ShortStep]_vars /\ []C6_ShortNeverMarked
C6_Witness ==
  \E r \in RunIds :
    /\ runs[r].msg.text.stripped_len = 40
    /\ runs[r].verdict = "short"
    /\ SizeContent = 0 /\ SizeMessages = 0 /\ clears = 0

\* C7: in every run, extraction is attempted only after the message was
\* admitted and classified as job-like, and users are fetched and the job
\* fanned out only after the job record was saved.
C7_PipelineOrder ==
  \A r \in RunIds :
    /\ Precedes(r, "admit", {"job_like", "not_job"})
    /\ Precedes(r, "job_like", ExtractEvents)
    /\ Precedes(r, "extracted", {"saved", "save_failed"})
    /\ Precedes(r, "saved", FanOutEvents)
    /\ runs[r].pc = "extract" => Has(r, "admit") /\ Has(r, "job_like")
    /\ runs[r].pc \in {"users", "forward", "send"}
         => /\ Has(r, "saved")
            /\ runs[r].post_id \in 1..Len(job_posts)
            /\ job_posts[runs[r].post_id].run = r
C7_Witness ==
  \E r \in RunIds :
    /\ Len(runs[r].trace) >= 6
    /\ SubSeq(runs[r].trace, 1, 6) =
         <<"admit", "job_like", "extracted", "saved", "users", "forward_error">>

\* C8: a run whose insert failed ends there: one insert attempt, no user
\* lookup, no fan-out, no notification and no job_posts row for it.
C8_SaveFailureStops ==
  \A r \in RunIds :
    Has(r, "save_failed")
    => /\ runs[r].pc = "done"
       /\ runs[r].trace = <<"admit", "job_like", "extracted", "save_failed">>
       /\ runs[r].users = << >>
       /\ runs[r].post_id = 0
       /\ \A i \in 1..Len(job_posts) : job_posts[i].run # r
       /\ \A i \in 1..Len(sent) : sent[i].post_id # 0
C8_Witness ==
  \E r1, r2 \in RunIds :
    /\ r1 < r2
    /\ Has(r1, "save_failed")
    /\ Has(r2, "saved") /\ Has(r2, "users")

\* C9: when the broadcast loop of a run has gone through its recipient
\* list, every recipient has got exactly one send_message call for that job.
C9_EveryRecipientTried ==
  \A r \in RunIds :
    LoopCompleted(r)
    => \A i \in 1..Len(runs[r].users) : SendsTo(r, runs[r].users[i]) = 1

\* C10: when the broadcast loop of a run has gone through its recipient
\* list, every user without a stored preference profile (and with a
\* telegram_id) has been sent the job notification.
C10_NoProfileUserNotified ==
  \A r \in RunIds :
    LoopCompleted(r)
    => \A k \in 1..Len(UsersTable) :
         (~UsersTable[k].has_profile
            /\ UsersTable[k].telegram_id # NullTelegramId)
         => \E i \in 1..Len(sent) :
              /\ sent[i].user_id = UsersTable[k].user_id
              /\ sent[i].post_id = runs[r].post_id
              /\ sent[i].ok

\* ------------------------------------------------ recipients vocabulary
JobOf(r) == extract_job_data(runs[r].msg)
RecipientIds(r) ==
  {runs[r].users[i].user_id : i \in 1..Len(runs[r].users)}
Reachable(k) == UsersTable[k].telegram_id # NullTelegramId
UserColumns == {"user_id", "full_name", "username", "telegram_id", "role"}

Denylisted(text) == text.skip_pattern
TooManySlashes(text) == text.slashes > MaxSlashes
PreFiltered(text) ==
  text.stripped_len >= MinBodyLength /\ (Denylisted(text) \/ TooManySlashes(text))
KeyOf(r) == MessageKey(runs[r].msg)
HashOf(r) == md5(runs[r].msg.text)

\* C19 (as stated): a message of at least 50 characters that hits the
\* denylist or has more than 2 "/" is never marked: its run has no marking
\* step, and neither its key nor its hash is put into the seen-sets by it.
C19_Original ==
  \A r \in RunIds :
    PreFiltered(runs[r].msg.text)
    => /\ ~Has(r, "admit")
       /\ (\A q \in RunIds : SameKey(q, r) => ~Has(q, "admit"))
            => KeyOf(r) \notin processed_messages
       /\ (\A q \in RunIds : SameBody(q, r) => ~Has(q, "admit"))
            => HashOf(r) \notin processed_content
\* C19 (amended): the denylist and the "/" count are checked by
\* is_job_posting, after the marking: such a message, when it is new, is
\* marked first (key and hash are in the seen-sets right after the marking
\* step) and then rejected as not a job, with nothing stored or sent.
C19_MarkStep ==
  \A r \in 1..MaxPresentations :
    (r \in RunIds /\ runs[r].pc = "mark" /\ runs'[r].pc # "mark"
       /\ PreFiltered(runs[r].msg.text))
    => /\ KeyOf(r) \in processed_messages'
       /\ HashOf(r) \in processed_content'
       /\ runs'[r].pc = "classify"
C19_MarkedThenRejected ==
  /\ [][C19_MarkStep]_vars
  /\ [](\A r \in RunIds :
          (PreFiltered(runs[r].msg.text) /\ Passed(r)
             /\ runs[r].pc \notin {"mark", "classify"})
          => /\ runs[r].trace = <<"admit", "not_job">>
             /\ runs[r].pc = "done"
             /\ \A i \in 1..Len(job_posts) : job_posts[i].run # r
             /\ runs[r].users = << >>)
C19_Witness ==
  \E r1, r2 \in RunIds :
    /\ Denylisted(runs[r1].msg.text) /\ TooManySlashes(runs[r2].msg.text)
    /\ runs[r1].trace = <<"admit", "not_job">>
    /\ runs[r2].trace = <<"admit", "not_job">>
    /\ KeyOf(r1) \in processed_messages /\ HashOf(r1) \in processed_content
    /\ KeyOf(r2) \in processed_messages /\ HashOf(r2) \in processed_content

\* C17: when extract_job_data yields None (an extractor raised, no title or
\* no description) the run ends right after the extraction, normally: no
\* job_posts row is written for it, no user is fetched or notified for it.
C17_NullDropsSilently ==
  \A r \in RunIds :
    (extract_job_data(runs[r].msg) = NoneValue \/ Has(r, "no_data"))
    => /\ \A i \in 1..Len(job_posts) : job_posts[i].run # r
       /\ runs[r].users = << >> /\ runs[r].post_id = 0
       /\ Count(r, FanOutEvents \cup {"saved", "save_failed"}) = 0
       /\ \A i \in 1..Len(sent) : sent[i].post_id # 0
       /\ Has(r, "no_data")
          => /\ runs[r].pc = "done"
             /\ runs[r].trace = <<"admit", "job_like", "no_data">>
C17_Witness ==
  \E r1, r2 \in RunIds :
    /\ runs[r1].trace = <<"admit", "job_like", "no_data">>
    /\ runs[r2].trace = <<"admit", "job_like", "no_data">>
    /\ runs[r1].pc = "done" /\ runs[r2].pc = "done"
    /\ extract_application_link(runs[r1].msg.text).raised = "IndexError"
    /\ runs[r2].msg.text.title = "" \/ runs[r2].msg.text.description = ""
    /\ extract_application_link(runs[r2].msg.text).raised = ""

\* ---------------------------------------------------------- timeout vocabulary
LastEvent(r) == runs[r].trace[Len(runs[r].trace)]
\* recipients of run r for whom forward_job_to_user_json was entered
Tried(r) == Count(r, {"forward_error", "no_bot", "sent", "send_failed"})

\* C20 (as stated): no timeout cancels the whole fan-out of a job: a run
\* that saved its job and met a timeout still went through the broadcast
\* loop to its end.
C20_Original ==
  \A r \in RunIds :
    (runs[r].pc = "done" /\ Has(r, "saved") /\ Has(r, "timeout"))
    => LoopCompleted(r)
\* C20 (amended): a timeout is never per user; it cancels all that is left
\* of the run: the timeout is the last event of the run, the run is over,
\* the broadcast loop has not run to its end and no recipient is tried after
\* it.
C20_TimeoutCancelsRest ==
  \A r \in RunIds :
    Has(r, "timeout")
    => /\ runs[r].pc = "done"
       /\ LastEvent(r) = "timeout"
       /\ Count(r, {"timeout"}) = 1
       /\ ~LoopCompleted(r)
       /\ Tried(r) < Max(1, Len(runs[r].users))
C20_Witness ==
  \E r \in RunIds :
    /\ runs[r].trace = <<"admit", "job_like", "extracted", "saved", "timeout">>
    /\ runs[r].pc = "done"
    /\ \E i \in 1..Len(job_posts) : job_posts[i].run = r
    /\ Len(Recipients(JobOf(r))) > 1
    /\ Tried(r) = 0

\* -------------------------------------------------------- matcher vocabulary
CallIds == 1..Len(ai_calls)
VerdictFields == {"match_score", "match_reason", "recommendation", "is_match"}
ZeroVerdict(v) ==
  /\ DOMAIN v = VerdictFields
  /\ v.match_score = Float(0)
  /\ v.is_match = Bool(FALSE)
  /\ v.match_reason.type = "str" /\ v.match_reason.chars # ""
FailureModes == {"uninitialised", "timing_out", "failing"}

\* C14: every call of match_job_to_user returns a verdict and lets no
\* exception out; when the model is uninitialised, the call times out or the
\* call raises, the verdict has match_score 0.0, is_match false and a reason.
C14_AlwaysAVerdict ==
  \A i \in CallIds :
    /\ ai_calls[i].outcome.raised = ""
    /\ ai_calls[i].outcome.result # NoObject
    /\ ai_calls[i].mode \in FailureModes
       => ZeroVerdict(ai_calls[i].outcome.result)
C14_Witness ==
  \E i, j, k \in CallIds :
    /\ ai_calls[i].mode = "uninitialised"
    /\ ai_calls[j].mode = "timing_out"
    /\ ai_calls[k].mode = "failing"
    /\ ZeroVerdict(ai_calls[i].outcome.result)
    /\ ai_calls[j].outcome.result.match_reason = Str("AI matching timeout")
    /\ ai_calls[k].outcome.result.match_reason =
         Str("Error in AI matching process")

\* C15: every verdict match_job_to_user returns has exactly the fields
\* match_score, match_reason, recommendation and is_match, with match_score
\* a number within 0.0..1.0 and is_match a boolean.
C15_VerdictShape ==
  \A i \in CallIds :
    LET v == ai_calls[i].outcome.result
    IN /\ DOMAIN v = VerdictFields
       /\ v.match_score.type = "float"
       /\ v.match_score.value \in 0..10
       /\ v.is_match.type = "bool"

\* ---------------------------------------------------- AI gating vocabulary
SameJob(r1, r2) == runs[r1].msg.text = runs[r2].msg.text
AttemptedUsers(r) ==
  {sent[i].user_id : i \in {j \in 1..Len(sent) : sent[j].post_id = runs[r].post_id}}

\* C16: two handler runs of the same job whose user query returned have the
\* same recipients, and when their broadcast loops ran to the end the same
\* users got a send attempt, whatever the condition of the Gemini matcher
\* (uninitialised, initialised, timing out, failing) was at either run; the
\* recipients are always the users with a telegram_id.
C16_AiNeverGates ==
  /\ \A r \in RunIds :
       Has(r, "users")
       => /\ runs[r].ai \in AiModes
          /\ RecipientIds(r) =
               {UsersTable[k].user_id : k \in {j \in 1..Len(UsersTable) : Reachable(j)}}
  /\ \A r1, r2 \in RunIds :
       (SameJob(r1, r2) /\ Has(r1, "users") /\ Has(r2, "users"))
       => /\ runs[r1].users = runs[r2].users
          /\ (LoopCompleted(r1) /\ LoopCompleted(r2))
             => /\ AttemptedUsers(r1) = AttemptedUsers(r2)
                /\ Tried(r1) = Tried(r2)
C16_Witness ==
  \E r1, r2 \in RunIds :
    /\ r1 # r2 /\ SameJob(r1, r2)
    /\ LoopCompleted(r1) /\ LoopCompleted(r2)
    /\ runs[r1].ai = "uninitialised"
    /\ runs[r2].ai \in {"timing_out", "failing"}
    /\ runs[r1].users = runs[r2].users /\ runs[r1].users # << >>

\* ----------------------------------------------------- extraction vocabulary
Fixture ==
  << Line("Job Title: Backend Engineer", "Job Title:", "Backend Engineer",
          "Backend Engineer", {}, {}, ""),
     Line("Job Type: Remote", "Job Type:", "Remote", "", {"remote"}, {}, ""),
     Line("Work Location: Addis Ababa", "Work Location:", "Addis Ababa", "",
          {}, {"addis ababa", "addis"}, ""),
     Line("Salary/Compensation: 20,000 Birr", "Salary/Compensation:",
          "20,000 Birr", "", {}, {}, "20,000"),
     Line("Deadline: 2025-01-01", "Deadline:", "2025-01-01", "", {}, {}, "") >>
FixtureFields ==
  [title |-> "Backend Engineer", job_type |-> "remote",
   location |-> "Addis Ababa", salary |-> "20,000 Birr",
   deadline |-> "2025-01-01"]
Extracted == extract_out # NoneValue
HasLabel(label) == Labelled(extract_in, label) # {}
FirstValue(label) == extract_in[First(Labelled(extract_in, label))].value
\* the fixture gives the stated fields, and the first line labelled for
\* title, job type, location or deadline decides that field, empty or not
LabelDecides ==
  /\ extract_in = Fixture => extract_out = FixtureFields
  /\ HasLabel("Job Title:") => extract_out.title = FirstValue("Job Title:")
  /\ HasLabel("Job Type:")
     => extract_out.job_type = SimplifyJobType(FirstValue("Job Type:"))
  /\ HasLabel("Work Location:")
     => extract_out.location = FirstValue("Work Location:")
  /\ HasLabel("Deadline:") => extract_out.deadline = FirstValue("Deadline:")
SalaryPlaceholders == {"", "Monthly", "Fixed (One-time)"}
UsableSalaryLines ==
  {i \in Labelled(extract_in, "Salary/Compensation:") :
     extract_in[i].value \notin SalaryPlaceholders}
SalaryPatternLines ==
  {i \in 1..Len(extract_in) : extract_in[i].salary_fb # ""}

\* C18 (as stated): the fixture yields title "Backend Engineer", job_type
\* "remote", location "Addis Ababa", salary "20,000 Birr", deadline
\* "2025-01-01", and for every field a line starting with its label wins
\* over the fallbacks: the salary of a text with a labelled salary line is
\* never a product of the salary patterns.
C18_Original ==
  Extracted
  => /\ LabelDecides
     /\ HasLabel("Salary/Compensation:")
        => extract_out.salary \in
             {extract_in[i].value : i \in Labelled(extract_in, "Salary/Compensation:")}
             \cup {PyNone}
\* C18 (amended): the fixture yields the stated fields; the first line
\* labelled for title, job type, location or deadline decides that field;
\* a labelled salary line decides the salary only when its value is not
\* empty, 'Monthly' or 'Fixed (One-time)': the first such line wins, and
\* without one the salary patterns decide as if there were no label.
C18_LabelPriority ==
  Extracted
  => /\ LabelDecides
     /\ UsableSalaryLines # {}
        => extract_out.salary = extract_in[First(UsableSalaryLines)].value
     /\ (UsableSalaryLines = {} /\ SalaryPatternLines # {})
        => extract_out.salary = Birr(extract_in[First(SalaryPatternLines)].salary_fb)
     /\ (UsableSalaryLines = {} /\ SalaryPatternLines = {})
        => extract_out.salary = PyNone
C18_Witness ==
  /\ extract_in = Fixture
  /\ extract_out = FixtureFields

\* C21 (as stated): a call that timed out and a call whose API raised give
\* the caller the same verdict value.
C21_Original ==
  \A i, j \in CallIds :
    (ai_calls[i].mode = "timing_out" /\ ai_calls[j].mode = "failing")
    => ai_calls[i].outcome.result = ai_calls[j].outcome.result
\* C21 (amended): a call that timed out and a call whose API raised give
\* verdicts with the same match_score 0.0 and the same is_match false, but
\* with different match_reason and recommendation texts, so the caller can
\* tell them apart.
C21_SameScoreOtherReason ==
  \A i, j \in CallIds :
    (ai_calls[i].mode = "timing_out" /\ ai_calls[j].mode = "failing")
    => /\ ai_calls[i].outcome.result.match_score =
            ai_calls[j].outcome.result.match_score
       /\ ai_calls[i].outcome.result.match_score = Float(0)
       /\ ai_calls[i].outcome.result.is_match =
            ai_calls[j].outcome.result.is_match
       /\ ai_calls[i].outcome.result.is_match = Bool(FALSE)
       /\ ai_calls[i].outcome.result.match_reason #
            ai_calls[j].outcome.result.match_reason
       /\ ai_calls[i].outcome.result.recommendation #
            ai_calls[j].outcome.result.recommendation
C21_Witness ==
  \E i, j \in CallIds :
    /\ ai_calls[i].mode = "timing_out" /\ ai_calls[j].mode = "failing"
    /\ ai_calls[i].response.raised = "TimeoutError"
    /\ ai_calls[j].response.raised = "Exception"
    /\ ai_calls[i].outcome.result # ai_calls[j].outcome.result

\* ------------------------------------------------------- fallback vocabulary
\* calls whose reply is a text without an object json.loads accepts
FallbackCalls ==
  {i \in CallIds : /\ ai_calls[i].response.raised = ""
                   /\ ai_calls[i].response.text.json \in {"invalid", "none"}}
ScoreOf(i) == ai_calls[i].outcome.result.match_score
IsMatchOf(i) == ai_calls[i].outcome.result.is_match

\* C22: for a reply without a parsable JSON object the verdict comes from
\* the keyword fallback: a positive phrase alone gives match_score 0.7 and
\* is_match true; a negative phrase gives is_match false and a match_score
\* of at most 0.3, also when a positive phrase occurs as well; neither gives
\* match_score 0.0 and is_match false.
C22_KeywordFallback ==
  \A i \in FallbackCalls :
    LET text == ai_calls[i].response.text
    IN /\ DOMAIN ai_calls[i].outcome.result = VerdictFields
       /\ (text.positive /\ ~text.negative)
          => ScoreOf(i) = Float(7) /\ IsMatchOf(i) = Bool(TRUE)
       /\ text.negative
          => ScoreOf(i).value <= 3 /\ IsMatchOf(i) = Bool(FALSE)
       /\ (text.positive /\ text.negative) => ScoreOf(i) = Float(3)
       /\ (~text.positive /\ ~text.negative)
          => ScoreOf(i) = Float(0) /\ IsMatchOf(i) = Bool(FALSE)
C22_Witness ==
  \E i, j, k \in FallbackCalls :
    /\ ai_calls[i].response.text.positive /\ ~ai_calls[i].response.text.negative
    /\ ScoreOf(i) = Float(7) /\ IsMatchOf(i) = Bool(TRUE)
    /\ ai_calls[j].response.text.positive /\ ai_calls[j].response.text.negative
    /\ ScoreOf(j) = Float(3) /\ IsMatchOf(j) = Bool(FALSE)
    /\ ~ai_calls[k].response.text.positive /\ ~ai_calls[k].response.text.negative
    /\ ScoreOf(k) = Float(0) /\ IsMatchOf(k) = Bool(FALSE)

\* ---------------------------------------------------------- batch vocabulary
PairIds == 1..Len(batch_log)
HasTrueIsMatch(i) ==
  /\ batch_log[i].match_result # NoObject
  /\ "is_match" \in DOMAIN batch_log[i].match_result
  /\ batch_log[i].match_result.is_match = Bool(TRUE)
\* the pairs with a verdict whose is_match is true, in loop order
TruePairs == SelectSeq([k \in PairIds |-> k], HasTrueIsMatch)

\* C23: batch_match_jobs never raises; when it has returned every (job, user)
\* pair went through the loop body whatever happened to the pairs before it,
\* and the returned list holds exactly the pairs whose verdict has
\* is_match = true, in loop order.
C23_ExactlyTheMatches ==
  /\ batch.status # "raised"
  /\ batch.status = "returned"
     => /\ Len(batch_log) = Len(batch.jobs) * Len(batch.users)
        /\ \A j \in 1..Len(batch.jobs), u \in 1..Len(batch.users) :
             LET i == (j - 1) * Len(batch.users) + u
             IN /\ batch_log[i].job = batch.jobs[j]
                /\ batch_log[i].user_id = batch.users[u].user_id
        /\ [i \in 1..Len(matches) |->
              <<matches[i].job_data, matches[i].user_id>>]
           = [i \in 1..Len(TruePairs) |->
                <<batch_log[TruePairs[i]].job, batch_log[TruePairs[i]].user_id>>]

\* ----------------------------------------------------- classifier vocabulary
Classified == classify_out # NoneValue
\* the text has a line with a structured label and at least 50 characters
Labelled50 ==
  /\ \E i \in 1..Len(classify_in) : classify_in[i].label # ""
  /\ TextOfLines(classify_in).stripped_len >= MinBodyLength
NoKeyword == \A i \in 1..Len(classify_in) : ~classify_in[i].keyword
NoSkipNoMenu ==
  /\ \A i \in 1..Len(classify_in) : ~classify_in[i].skip
  /\ TextOfLines(classify_in).slashes <= MaxSlashes

\* C24 (as stated): a text of at least 50 characters with a structured label
\* is classified job-like even when no job keyword occurs in it.
C24_Original ==
  (Classified /\ Labelled50 /\ NoKeyword /\ NoSkipNoMenu)
  => classify_out.is_job
\* C24 (amended): a structured label does not make up for a missing job
\* keyword: a text in which no job keyword occurs is classified not
\* job-like whatever labels it has, and a text of at least 50 characters
\* with a structured label, a job keyword, no skip pattern and at most two
\* "/" is classified job-like.
C24_KeywordRequired ==
  Classified
  => /\ NoKeyword => ~classify_out.is_job
     /\ (Labelled50 /\ ~NoKeyword /\ NoSkipNoMenu) => classify_out.is_job
C24_Witness ==
  /\ Classified /\ Labelled50 /\ NoKeyword /\ NoSkipNoMenu
  /\ ~classify_out.is_job

\* --------------------------------------------------------- seen-set sizes
NewlyAdmitted(r) ==
  /\ r \in RunIds
  /\ runs[r].verdict # "admitted"
  /\ runs'[r].verdict = "admitted"
MessagesCleared == SizeMessages > 0 /\ SizeMessages' = 0
ContentCleared == SizeContent > 0 /\ SizeContent' = 0

\* C25: between handler steps processed_messages and processed_content hold
\* the same number of keys; a step that admits a message adds exactly one
\* key to each set, a key that was in neither; and a step clears one set
\* exactly when it clears the other.
C25_SameSize ==
  /\ [](SizeMessages = SizeContent)
  /\ [][ /\ \A r \in 1..MaxPresentations :
              NewlyAdmitted(r)
              => /\ KeyOf(r) \notin processed_messages
                 /\ processed_messages' = processed_messages \cup {KeyOf(r)}
                 /\ HashOf(r) \notin processed_content
                 /\ processed_content' = processed_content \cup {HashOf(r)}
                 /\ msgFill' = msgFill /\ contentFill' = contentFill
          /\ MessagesCleared <=> ContentCleared ]_vars
C25_Witness ==
  /\ clears >= 1
  /\ \E r \in RunIds : Admitted(r) /\ runs[r].epoch = clears
  /\ SizeMessages = SizeContent
  /\ Cardinality(processed_messages) >= 1
  /\ Cardinality(processed_content) >= 1

\* ------------------------------------------------------- failure vocabulary
FailureEvents ==
  {"not_job", "no_data", "save_failed", "timeout", "forward_error",
   "send_failed", "no_users", "no_bot"}
Failed(r) == runs[r].pc = "done" /\ Count(r, FailureEvents) > 0
StillMarked(r) ==
  KeyOf(r) \in processed_messages /\ HashOf(r) \in processed_content
Rejected(r) ==
  ~Passed(r) /\ runs[r].pc = "done" /\ runs[r].trace = << >>

\* C26: marking is the first thing an admitted run does and no outcome of
\* the run undoes it: as long as no seen-set has been cleared since the
\* admission, the identity key and the content hash of the message are in
\* the seen-sets, whether the run was rejected by the classifier, extracted
\* nothing, failed to persist, timed out or failed to send; and every later
\* presentation of the same identity or the same body before a clear is
\* rejected without any processing.
C26_MarkSurvivesFailure ==
  \A r \in RunIds :
    Admitted(r)
    => /\ runs[r].trace[1] = "admit"
       /\ Precedes(r, "admit", FailureEvents \cup {"job_like", "extracted", "saved"})
       /\ runs[r].epoch = clears => StillMarked(r)
       /\ \A r2 \in RunIds :
            (r < r2 /\ (SameKey(r, r2) \/ SameBody(r, r2)) /\ SameEpoch(r, r2))
            => /\ Rejected(r2)
               /\ runs[r2].verdict \in {"dup_id", "dup_content", "self",
                                        "attr_error"}
C26_Witness ==
  \E r1, r2 \in RunIds :
    /\ r1 < r2 /\ Admitted(r1) /\ Failed(r1)
    /\ Has(r1, "timeout") \/ Has(r1, "save_failed") \/ Has(r1, "no_data")
    /\ SameBody(r1, r2) /\ ~SameKey(r1, r2) /\ SameEpoch(r1, r2)
    /\ runs[r2].verdict = "dup_content" /\ Rejected(r2)
    /\ StillMarked(r1)

\* ---------------------------------------------------- fresh-message vocabulary
\* the message of run r is not the scraper's own, has a body of at least 50
\* characters and no run before r had its identity or its body
FreshForeign(r) ==
  /\ ~runs[r].msg.out
  /\ runs[r].msg.from_id # MyId
  /\ ~TooShort(runs[r].msg.text)
  /\ \A r0 \in 1..(r - 1) : ~SameKey(r0, r) /\ ~SameBody(r0, r)

\* C27: a message that is not the scraper's own, has at least 50 characters
\* and is new by identity and content gets through the checks without an
\* error, is marked in both seen-sets before anything else happens to it,
\* and once its broadcast loop has run to its end every user with a
\* telegram_id has got one send_message call for it.
C27_FreshMessageDelivered ==
  \A r \in RunIds :
    FreshForeign(r)
    => /\ Passed(r)
       /\ runs[r].pc # "mark"
          => /\ Admitted(r) /\ runs[r].trace[1] = "admit"
             /\ runs[r].epoch = clears => StillMarked(r)
       /\ LoopCompleted(r)
          => \A k \in 1..Len(UsersTable) :
               Reachable(k) => SendsTo(r, UsersTable[k]) = 1

\* -------------------------------------------------------- payment vocabulary
PaymentIds == 1..Len(pending_payments)
\* the UPDATEs that changed the status of payment p
StatusChanges(p) ==
  {i \in 1..Len(payment_log) :
     payment_log[i].payment_id = p /\ payment_log[i].from # payment_log[i].to}

\* C28: whatever approve_payment and reject_payment calls were made, the
\* status of a payment was changed at most once, from 'pending', and no
\* active subscription carries the reference of a payment whose status is
\* 'rejected'.
C28_DecidedOnce ==
  /\ \A p \in PaymentIds :
       /\ Cardinality(StatusChanges(p)) <= 1
       /\ \A i \in StatusChanges(p) : payment_log[i].from = "pending"
  /\ \A u \in PayUsers :
       subscriptions[u].status = "active"
       => pending_payments[subscriptions[u].transaction_ref].status # "rejected"

\* ------------------------------------------------------- referral vocabulary
WithdrawIds == 1..Len(withdraw_calls)
\* what the applied withdrawals of user u add up to
Withdrawn(u) ==
  SumOf([c \in WithdrawIds |->
           IF withdraw_calls[c].user_id = u /\ withdraw_calls[c].applied
           THEN withdraw_calls[c].amount ELSE 0])
WasAvailable(u) == IF u = 1 THEN StartBalance ELSE 0

\* C29: however withdraw_earnings calls of a user interleave, the user's
\* available_balance is never negative, what was withdrawn in total is not
\* more than the balance that was available, and a call rejected for
\* insufficient balance was made on a balance below its amount.
C29_NeverNegative ==
  /\ \A u \in RefUsers :
       /\ referral_users[u].available_balance >= 0
       /\ Withdrawn(u) <= WasAvailable(u)
  /\ \A c \in WithdrawIds :
       withdraw_calls[c].outcome = "insufficient"
       => ~withdraw_calls[c].applied
          /\ withdraw_calls[c].available_balance < withdraw_calls[c].amount

ReferralIds == 1..Len(referral_log)
\* the calls of process_referral for new user n that changed a balance
Credits(n) ==
  {i \in ReferralIds :
     referral_log[i].new_user_id = n /\ referral_log[i].credited # {}}

\* C30: over any sequence of process_referral calls a new user brings at
\* most one credit, nobody is credited for referring themselves, and a call
\* with an unknown referral code changes no balance.
C30_OneCreditPerUser ==
  /\ \A n \in RefUsers : Cardinality(Credits(n)) <= 1
  /\ \A i \in ReferralIds :
       /\ referral_log[i].new_user_id \notin referral_log[i].credited
       /\ ~referral_log[i].known => referral_log[i].credited = {}

====
